---- MODULE Spec2Model ----
(***************************************************************************)
(* A model of package gphotos (tgulacsi/gphotos): the rate gate `do`, the  *)
(* directory cache behind fileOf / pathOf / fileAsPhoto, and the paginated *)
(* streaming session started by Photos (getPhotos / getChanges).           *)
(*                                                                         *)
(* Line numbers refer to src/unnamed/part_000, the revision of gphotos.go  *)
(* that routes every remote call through do().                             *)
(***************************************************************************)
EXTENDS Integers, Sequences, FiniteSets, TLC

(***************************************************************************)
(* Bounds of the model.                                                    *)
(***************************************************************************)
\* overload ("Rate Limit Exceeded") answers the remote service gives in a run
MaxOverload == 3
\* tasks that call do() directly in SpecGate
NGate == 2
\* tasks that call fileOf() in SpecDirs
NRes == 2
\* overload answers given to the lookups of SpecDirs
MaxDirOverload == 1
\* parent identifiers of a raw record in SpecEnrich
MaxParents == 2
\* fileAsPhoto calls made in SpecEnrich, pathOf calls made in SpecPath
MaxConv == 2
\* pages of the remote listing
MaxPages == 2
\* entries of a page
MaxItems == 2
\* overload answers given to the page fetches of Spec
MaxSessOverload == 1
\* fileOf calls each of them makes
MaxCalls == 2

(***************************************************************************)
(* Program constants.                                                      *)
(***************************************************************************)
\* var Rate = rate.NewLimiter(10, 1)
InitialRate == 10

(***************************************************************************)
(* The limit of Rate is a float64.  It is kept here as an integer number   *)
(* of 10^-MaxOverload requests per second, so that MaxOverload successive  *)
(* multiplications by 0.9 are exact.                                       *)
(***************************************************************************)
RECURSIVE Pow10(_)
Pow10(n) == IF n = 0 THEN 1 ELSE 10 * Pow10(n - 1)

Scale == Pow10(MaxOverload)

\* Rate.Limit() * 0.9   (line 265)
DecayNoop(l) == l

Decay(l) == (l * 9) \div 10

RECURSIVE Pow(_, _)
Pow(b, n) == IF n = 0 THEN 1 ELSE b * Pow(b, n - 1)

(***************************************************************************)
(* Tasks (goroutines).                                                     *)
(***************************************************************************)
GProcs == {<<"g", i>> : i \in 1..NGate}

\* the task that runs Photos and then the fetch loop of getPhotos / getChanges
Drv == <<"d", 0>>

RProcs == {<<"r", i>> : i \in 1..NRes}

Procs == GProcs \cup RProcs \cup {Drv}

\* the per-page tasks of a session: the n-th is started for the n-th page
Tasks == 1..MaxPages

(***************************************************************************)
(* The remote drive: the folders srv.Get(id) can return.  A *drive.File is *)
(* its fields plus ptr, the identity of the allocation (two successful     *)
(* Get calls for one id return two different pointers).                    *)
(***************************************************************************)
Ids == {"root", "a", "b", "c"}

RemoteName(id) == CASE id = "root" -> "My Drive"
                    [] id = "a" -> "2016"
                    [] id = "b" -> "trip"
                    [] OTHER -> "x"

RemoteParents(id) == CASE id = "root" -> <<>>
                       [] id = "a" -> <<"root">>
                       [] id = "b" -> <<"a">>
                       [] OTHER -> <<"b", "root">>

NilFile == [Id |-> "", Name |-> "", Parents |-> <<>>, ptr |-> 0]

File(id, n) == [Id |-> id, Name |-> RemoteName(id), Parents |-> RemoteParents(id), ptr |-> n]

\* the identifiers the tasks of SpecDirs resolve
DirIds == {"a", "b"}

NoCall == [st |-> "none", val |-> NilFile, err |-> "nil"]

VARIABLES
    Rate,       \* the limit of the shared limiter (scaled, see Scale)
    cancelled,  \* ctx.Done() is closed
    overloads,  \* overload answers given so far by the remote service
    dpc,        \* per task: where it is inside do()
    dret,       \* per task: what do() returns ("ok", "cancel", "fail")
    dlim,       \* per task: the value Rate.Limit() returned to it
    dstat,      \* per task: history of its current do(): waits, calls,
                \*   overload answers, and Rate when it started
    started,    \* history: the tasks that ever entered do()
    dirs,       \* the cache: id -> *drive.File (NilFile: no entry)
    dirSingle,  \* the singleflight group: id -> the call in flight
    rpc,        \* per task: where it is inside fileOf()
    rkey,       \* per task: the id it resolves
    rval,       \* per task: the file it holds (fn's f, then Do's r)
    rerr,       \* per task: the error it holds
    ncalls,     \* per task: fileOf calls made so far
    raced,      \* tasks whose access to dirs in progress overlaps a write
    crashed,    \* the runtime has thrown (fatal error or panic): all stops
    gets,       \* history: id -> srv.Get(id) invocations
    okGets,     \* history: id -> successful srv.Get(id) invocations
    badGets,    \* history: id -> gated lookups that were overloaded, failed
                \*   or cancelled
    asked,      \* history: the ids fileOf was called for
    rets,       \* history: id -> the files fileOf returned (err == nil)
    failed,     \* history: the ids whose lookup returned an error to fileOf
    raw,        \* SpecEnrich: the *drive.File last given to fileAsPhoto
    down,       \* SpecEnrich: the ids srv.Get failed for during that call
    dirs0,      \* SpecEnrich: the cache when that call started
    photo,      \* SpecEnrich: the Photo that call returned
    perr,       \* SpecEnrich: the error that call returned
    nconv,      \* SpecEnrich, SpecPath: calls made so far
    start,      \* SpecPath: the *drive.File last given to pathOf
    path,       \* SpecPath: the names that call returned
    sinceToken, \* Photos' argument: "" asks for the full listing
    pages,      \* the remote listing: per page, its entries in order
                \*   ("file": a file; "gone": a change whose File is nil)
    spc,        \* where Photos / getPhotos / getChanges is
    r,          \* the variable r the fetch loop and its tasks share: the
                \*   number of the page it points to, 0 for nil
    nextToken,  \* Photos' nextToken
    returned,   \* what Photos returned: its channel (or nil), token and error
    ferr,       \* the error of the failed page fetch ("nil": none)
    fetches,    \* history: the tokens the page fetches were issued with
    tpc,        \* per page task: where it is
    tpage,      \* per page task: the page it read from r (0: not yet)
    ti,         \* per page task: the index of the entry it converts next
    tphotos,    \* per page task: photos, as <<page, index>> of the entries
    terr,       \* per page task: the error fileAsPhoto returned to it
    delivered,  \* the batches the consumer received from ch, in order
    closed,     \* ch is closed
    cancelAt,   \* history: "gate" when ctx was cancelled while a page fetch
                \*   after the first was waiting in Rate.Wait, "other" when
                \*   it was cancelled elsewhere, "none" when it was not
    got,        \* history: per page fetch that returned, the page it
                \*   returned (0: it returned an error)
    tokenCalls  \* history: the do(GetStartPageToken) calls made

gateVars == <<Rate, overloads, dpc, dret, dlim, dstat, started>>

dirVars == <<dirs, dirSingle, rpc, rkey, rval, rerr, ncalls, raced, crashed,
             gets, okGets, badGets, asked, rets, failed>>

enrVars == <<raw, down, dirs0, photo, perr, nconv, start, path>>

sessVars == <<sinceToken, pages, spc, r, nextToken, returned, ferr, fetches,
              tpc, tpage, ti, tphotos, terr, delivered, closed, cancelAt, got, tokenCalls>>

\* dirVars but crashed
dirRest == <<dirs, dirSingle, rpc, rkey, rval, rerr, ncalls, raced,
             gets, okGets, badGets, asked, rets, failed>>

vars == <<gateVars, cancelled, dirVars, enrVars, sessVars>>

NoStat == [waits |-> 0, calls |-> 0, over |-> 0, rate0 |-> 0]

(***************************************************************************)
(* do(ctx, f)                                              lines 257-272   *)
(***************************************************************************)
\* the caller enters do(): the for loop starts at Rate.Wait
DoEnter(p) ==
    /\ dpc[p] = "idle"
    /\ dpc' = [dpc EXCEPT ![p] = "wait"]
    /\ dstat' = [dstat EXCEPT ![p] = [NoStat EXCEPT !.rate0 = Rate]]
    /\ started' = started \cup {p}
    /\ UNCHANGED <<Rate, overloads, dret, dlim>>

\* line 259: Rate.Wait(ctx) returns nil: a token was granted
DoWaitOk(p) ==
    /\ dpc[p] = "wait"
    /\ ~cancelled
    /\ dpc' = [dpc EXCEPT ![p] = "call"]
    /\ dstat' = [dstat EXCEPT ![p].waits = @ + 1]
    /\ UNCHANGED <<Rate, overloads, dret, dlim, started>>

\* lines 259-261: Rate.Wait(ctx) returns ctx.Err(); do returns nil, err
DoWaitCancelled(p) ==
    /\ dpc[p] = "wait"
    /\ cancelled
    /\ dpc' = [dpc EXCEPT ![p] = "ret"]
    /\ dret' = [dret EXCEPT ![p] = "cancel"]
    /\ UNCHANGED <<Rate, overloads, dlim, dstat, started>>

\* line 262 and 270: f() succeeds, do returns resp, nil
DoCallOk(p) ==
    /\ dpc[p] = "call"
    /\ dpc' = [dpc EXCEPT ![p] = "ret"]
    /\ dret' = [dret EXCEPT ![p] = "ok"]
    /\ dstat' = [dstat EXCEPT ![p].calls = @ + 1]
    /\ UNCHANGED <<Rate, overloads, dlim, started>>

\* lines 262-264: f() fails with "Rate Limit Exceeded"
DoCallOverload(p) ==
    /\ dpc[p] = "call"
    /\ overloads < MaxOverload
    /\ overloads' = overloads + 1
    /\ dpc' = [dpc EXCEPT ![p] = "limit"]
    /\ dstat' = [dstat EXCEPT ![p].calls = @ + 1, ![p].over = @ + 1]
    /\ UNCHANGED <<Rate, dret, dlim, started>>

\* lines 262-268 with the limit decayed for every error of f()
DoCallFailDecay(p) ==
    /\ dpc[p] = "call"
    /\ dpc' = [dpc EXCEPT ![p] = "ret"]
    /\ dret' = [dret EXCEPT ![p] = "fail"]
    /\ dstat' = [dstat EXCEPT ![p].calls = @ + 1]
    /\ Rate' = Decay(Rate)
    /\ UNCHANGED <<overloads, dlim, started>>

\* lines 262-268: f() fails with another error, do returns nil, err
DoCallFail(p) ==
    /\ dpc[p] = "call"
    /\ dpc' = [dpc EXCEPT ![p] = "ret"]
    /\ dret' = [dret EXCEPT ![p] = "fail"]
    /\ dstat' = [dstat EXCEPT ![p].calls = @ + 1]
    /\ UNCHANGED <<Rate, overloads, dlim, started>>

\* line 265, the argument: Rate.Limit() (takes and releases the limiter's lock)
DoGetLimit(p) ==
    /\ dpc[p] = "limit"
    /\ dlim' = [dlim EXCEPT ![p] = Rate]
    /\ dpc' = [dpc EXCEPT ![p] = "setlimit"]
    /\ UNCHANGED <<Rate, overloads, dret, dstat, started>>

\* line 265-266: Rate.SetLimit(<the limit read> * 0.9); continue
DoSetLimit(p) ==
    /\ dpc[p] = "setlimit"
    /\ Rate' = Decay(dlim[p])
    /\ dlim' = [dlim EXCEPT ![p] = 0]
    /\ dpc' = [dpc EXCEPT ![p] = "wait"]
    /\ UNCHANGED <<overloads, dret, dstat, started>>

\* the steps of do() that task p can take
DoStep(p) ==
    \/ DoWaitOk(p)
    \/ DoWaitCancelled(p)
    \/ DoCallOk(p)
    \/ DoCallOverload(p)
    \/ DoCallFail(p)
    \/ DoGetLimit(p)
    \/ DoSetLimit(p)

\* the caller takes do()'s result
DoLeave(p) ==
    /\ dpc[p] = "ret"
    /\ dpc' = [dpc EXCEPT ![p] = "idle"]
    /\ dret' = [dret EXCEPT ![p] = "none"]
    /\ dstat' = [dstat EXCEPT ![p] = NoStat]
    /\ UNCHANGED <<Rate, overloads, dlim, started>>

\* the holder of ctx cancels it
Cancel ==
    /\ ~cancelled
    /\ cancelled' = TRUE

(***************************************************************************)
(* fileOf(ctx, srv, p)                                     lines 212-242   *)
(*                                                                         *)
(* dirSingle.Do(p, fn) is go4.org/syncutil/singleflight: under the group's *)
(* mutex the caller either finds a call for the key and waits for it, or   *)
(* registers a new call; the registering task runs fn, publishes its       *)
(* result (wg.Done), and then removes the call under the mutex.            *)
(*                                                                         *)
(* dirs is a plain Go map.  Nothing orders fn's accesses to it in tasks    *)
(* that resolve different keys, so an access takes two steps here (begin,  *)
(* end) and two accesses can overlap.  An access that overlaps a write is  *)
(* a data race: the runtime may throw ("concurrent map read and map       *)
(* write", "concurrent map writes"), a read may miss an entry, a write may *)
(* be lost, or nothing visible happens.                                    *)
(***************************************************************************)
Reading == {q \in RProcs : rpc[q] = "reading"}

Writing == {q \in RProcs : rpc[q] = "writing"}

\* line 221: a task calls fileOf(ctx, srv, k)
FileOfCall(p, k) ==
    /\ ~crashed
    /\ rpc[p] = "idle"
    /\ ncalls[p] < MaxCalls
    /\ ncalls' = [ncalls EXCEPT ![p] = @ + 1]
    /\ rpc' = [rpc EXCEPT ![p] = "enter"]
    /\ rkey' = [rkey EXCEPT ![p] = k]
    /\ asked' = asked \cup {k}
    /\ UNCHANGED <<dirs, dirSingle, rval, rerr, raced, crashed, gets, okGets, badGets, rets, failed>>

\* line 222, singleflight.Do up to fn(): no call per key, every caller runs fn
FileOfEnterNoDedup(p) ==
    /\ ~crashed
    /\ rpc[p] = "enter"
    /\ dirSingle' = [dirSingle EXCEPT ![rkey[p]] = [st |-> "running", val |-> NilFile, err |-> "nil"]]
    /\ rpc' = [rpc EXCEPT ![p] = "read"]
    /\ UNCHANGED <<rval, rerr>>
    /\ UNCHANGED <<dirs, rkey, ncalls, raced, crashed, gets, okGets, badGets, asked, rets, failed>>

\* line 222, singleflight.Do up to fn(): join the call of the key or register one
FileOfEnter(p) ==
    /\ ~crashed
    /\ rpc[p] = "enter"
    /\ LET c == dirSingle[rkey[p]] IN
         CASE c.st = "none" ->
                /\ dirSingle' = [dirSingle EXCEPT ![rkey[p]] = [c EXCEPT !.st = "running"]]
                /\ rpc' = [rpc EXCEPT ![p] = "read"]
                /\ UNCHANGED <<rval, rerr>>
           [] c.st = "running" ->
                /\ rpc' = [rpc EXCEPT ![p] = "waiting"]
                /\ UNCHANGED <<dirSingle, rval, rerr>>
           [] OTHER ->
                \* the call is done and not yet removed: wg.Wait returns at once
                /\ rpc' = [rpc EXCEPT ![p] = "ret"]
                /\ rval' = [rval EXCEPT ![p] = c.val]
                /\ rerr' = [rerr EXCEPT ![p] = c.err]
                /\ UNCHANGED dirSingle
    /\ UNCHANGED <<dirs, rkey, ncalls, raced, crashed, gets, okGets, badGets, asked, rets, failed>>

\* line 225: the map read dirs[p] begins
FileOfReadBegin(p) ==
    /\ ~crashed
    /\ rpc[p] = "read"
    /\ rpc' = [rpc EXCEPT ![p] = "reading"]
    /\ raced' = IF Writing # {} THEN raced \cup {p} \cup Writing ELSE raced
    /\ UNCHANGED <<dirs, dirSingle, rkey, rval, rerr, ncalls, crashed, gets, okGets, badGets, asked, rets, failed>>

\* lines 225-228: the read ends with f; a hit returns f, a miss calls do()
FileOfRead(p, f) ==
    /\ rpc' = [rpc EXCEPT ![p] = IF f # NilFile THEN "done" ELSE "do"]
    /\ rval' = [rval EXCEPT ![p] = f]
    /\ rerr' = [rerr EXCEPT ![p] = "nil"]
    /\ raced' = raced \ {p}
    /\ IF f # NilFile THEN UNCHANGED gateVars ELSE DoEnter(p)
    /\ UNCHANGED <<dirs, dirSingle, rkey, ncalls, crashed, gets, okGets, badGets, asked, rets, failed>>

\* the runtime throws: the process dies
Throw ==
    /\ crashed' = TRUE
    /\ UNCHANGED <<gateVars, dirs, dirSingle, rpc, rkey, rval, rerr, ncalls, raced, gets, okGets, badGets, asked, rets, failed>>

FileOfReadEnd(p) ==
    /\ ~crashed
    /\ rpc[p] = "reading"
    /\ \/ FileOfRead(p, dirs[rkey[p]])
       \/ p \in raced /\ FileOfRead(p, NilFile)
       \/ p \in raced /\ Throw

\* the gated srv.Get(p) of lines 228-230, with its history
FileOfDo(p) ==
    /\ ~crashed
    /\ rpc[p] = "do"
    /\ DoStep(p)
    /\ overloads' <= MaxDirOverload
    /\ LET k == rkey[p]
           call == dpc[p] = "call"
           ok == call /\ dret'[p] = "ok"
           bad == (call /\ ~ok) \/ dret'[p] = "cancel"
       IN /\ gets' = [gets EXCEPT ![k] = IF call THEN @ + 1 ELSE @]
          /\ okGets' = [okGets EXCEPT ![k] = IF ok THEN @ + 1 ELSE @]
          /\ badGets' = [badGets EXCEPT ![k] = IF bad /\ @ = 0 THEN 1 ELSE @]
    /\ UNCHANGED <<dirs, dirSingle, rpc, rkey, rval, rerr, ncalls, raced, crashed, asked, rets, failed>>

\* lines 231-236: I != nil: f := I.(*drive.File), go on to store it;
\* otherwise fn returns nil, err
FileOfAfterDo(p) ==
    /\ ~crashed
    /\ rpc[p] = "do"
    /\ dpc[p] = "ret"
    /\ IF dret[p] = "ok"
         THEN /\ rval' = [rval EXCEPT ![p] = File(rkey[p], okGets[rkey[p]])]
              /\ rpc' = [rpc EXCEPT ![p] = "write"]
              /\ UNCHANGED rerr
         ELSE /\ rerr' = [rerr EXCEPT ![p] = dret[p]]
              /\ rpc' = [rpc EXCEPT ![p] = "done"]
              /\ UNCHANGED rval
    /\ failed' = IF dret[p] = "ok" THEN failed ELSE failed \cup {rkey[p]}
    /\ DoLeave(p)
    /\ UNCHANGED <<dirs, dirSingle, rkey, ncalls, raced, crashed, gets, okGets, badGets, asked, rets>>

\* line 233: the map write dirs[p] = f begins
FileOfWriteBegin(p) ==
    /\ ~crashed
    /\ rpc[p] = "write"
    /\ rpc' = [rpc EXCEPT ![p] = "writing"]
    /\ raced' = IF (Reading \cup Writing) # {}
                  THEN raced \cup {p} \cup Reading \cup Writing
                  ELSE raced
    /\ UNCHANGED <<gateVars, dirs, dirSingle, rkey, rval, rerr, ncalls, crashed, gets, okGets, badGets, asked, rets, failed>>

\* lines 233-234: the write ends (stored tells whether the entry is in the map)
FileOfWrite(p, stored) ==
    /\ dirs' = IF stored THEN [dirs EXCEPT ![rkey[p]] = rval[p]] ELSE dirs
    /\ rpc' = [rpc EXCEPT ![p] = "done"]
    /\ raced' = raced \ {p}
    /\ UNCHANGED <<gateVars, dirSingle, rkey, rval, rerr, ncalls, crashed, gets, okGets, badGets, asked, rets, failed>>

FileOfWriteEnd(p) ==
    /\ ~crashed
    /\ rpc[p] = "writing"
    /\ \/ FileOfWrite(p, TRUE)
       \/ p \in raced /\ FileOfWrite(p, FALSE)
       \/ p \in raced /\ Throw

\* singleflight.Do after fn(): c.val, c.err = fn(); c.wg.Done() releases the waiters
FileOfDone(p) ==
    /\ ~crashed
    /\ rpc[p] = "done"
    /\ LET k == rkey[p]
           v == IF rerr[p] = "nil" THEN rval[p] ELSE NilFile
           W == {q \in RProcs : rpc[q] = "waiting" /\ rkey[q] = k}
       IN /\ dirSingle' = [dirSingle EXCEPT ![k] = [st |-> "done", val |-> v, err |-> rerr[p]]]
          /\ rpc' = [q \in RProcs |-> IF q = p THEN "delete" ELSE IF q \in W THEN "ret" ELSE rpc[q]]
          /\ rval' = [q \in RProcs |-> IF q = p \/ q \in W THEN v ELSE rval[q]]
          /\ rerr' = [q \in RProcs |-> IF q \in W THEN rerr[p] ELSE rerr[q]]
    /\ UNCHANGED <<gateVars, dirs, rkey, ncalls, raced, crashed, gets, okGets, badGets, asked, rets, failed>>

\* singleflight.Do, the end: delete(g.m, key) under the mutex
FileOfDelete(p) ==
    /\ ~crashed
    /\ rpc[p] = "delete"
    /\ dirSingle' = [dirSingle EXCEPT ![rkey[p]] = NoCall]
    /\ rpc' = [rpc EXCEPT ![p] = "ret"]
    /\ UNCHANGED <<gateVars, dirs, rkey, rval, rerr, ncalls, raced, crashed, gets, okGets, badGets, asked, rets, failed>>

\* lines 238-241: fileOf returns nil, err or r.(*drive.File), nil
FileOfReturn(p) ==
    /\ ~crashed
    /\ rpc[p] = "ret"
    /\ rets' = IF rerr[p] = "nil" THEN [rets EXCEPT ![rkey[p]] = @ \cup {rval[p]}] ELSE rets
    /\ rpc' = [rpc EXCEPT ![p] = "idle"]
    /\ rkey' = [rkey EXCEPT ![p] = ""]
    /\ rval' = [rval EXCEPT ![p] = NilFile]
    /\ rerr' = [rerr EXCEPT ![p] = "nil"]
    /\ UNCHANGED <<gateVars, dirs, dirSingle, ncalls, raced, crashed, gets, okGets, badGets, asked, failed>>

(***************************************************************************)
(* fileAsPhoto, pathOf and fileOf as one task runs them    lines 167-255   *)
(*                                                                         *)
(* Within one task the calls are sequential: singleflight.Do runs fn at    *)
(* once, and do() either returns the file or an error.  d is the cache on  *)
(* entry, dn the set of ids whose srv.Get fails during the call; every     *)
(* result carries the cache as the call leaves it.                         *)
(***************************************************************************)
NoPhoto == [ID |-> "", Name |-> "", Parents |-> <<>>]

\* the error of a failed lookup of id k
GetErr(k) == "get " \o k

\* lines 221-242: a hit returns the cached file; a miss looks k up, stores the
\* file on success and returns the error (storing nothing) on failure
fileOf(d, dn, k) ==
    IF d[k] # NilFile
      THEN [f |-> d[k], err |-> "nil", dirs |-> d]
      ELSE IF k \in dn
             THEN [f |-> NilFile, err |-> GetErr(k), dirs |-> d]
             ELSE LET f == File(k, 1)
                  IN [f |-> f, err |-> "nil", dirs |-> [d EXCEPT ![k] = f]]

\* lines 244-255 following the last parent identifier in place of the first
RECURSIVE pathOfLast(_, _, _)
pathOfLast(d, dn, f) ==
    LET nm == <<f.Name>> IN
    IF Len(f.Parents) = 0
      THEN [parts |-> nm, err |-> "nil", dirs |-> d]
      ELSE LET p == fileOf(d, dn, f.Parents[Len(f.Parents)]) IN
           IF p.err # "nil" \/ p.f = NilFile
             THEN [parts |-> nm, err |-> p.err, dirs |-> p.dirs]
             ELSE LET prev == pathOfLast(p.dirs, dn, p.f)
                  IN [parts |-> prev.parts \o nm, err |-> prev.err, dirs |-> prev.dirs]

\* lines 244-255
RECURSIVE pathOf(_, _, _)
pathOf(d, dn, f) ==
    LET nm == <<f.Name>> IN
    IF Len(f.Parents) = 0
      THEN [parts |-> nm, err |-> "nil", dirs |-> d]
      ELSE LET p == fileOf(d, dn, f.Parents[1]) IN
           IF p.err # "nil" \/ p.f = NilFile
             THEN [parts |-> nm, err |-> p.err, dirs |-> p.dirs]
             ELSE LET prev == pathOf(p.dirs, dn, p.f)
                  IN [parts |-> prev.parts \o nm, err |-> prev.err, dirs |-> prev.dirs]

\* strings.Join(parts, sep)
RECURSIVE Join(_, _)
Join(parts, sep) ==
    IF Len(parts) = 0 THEN ""
    ELSE IF Len(parts) = 1 THEN parts[1]
    ELSE parts[1] \o sep \o Join(Tail(parts), sep)

\* lines 192-208 with the loop left at the first error (break for continue)
RECURSIVE parentsLoopBreak(_, _, _, _, _, _)
parentsLoopBreak(d, dn, ks, i, out, firstErr) ==
    IF i > Len(ks) THEN [Parents |-> out, err |-> firstErr, dirs |-> d]
    ELSE LET pf == fileOf(d, dn, ks[i]) IN
         IF pf.err # "nil"
           THEN [Parents |-> out, err |-> pf.err, dirs |-> pf.dirs]
           ELSE LET pp == pathOf(pf.dirs, dn, pf.f) IN
                IF pp.err # "nil"
                  THEN [Parents |-> out, err |-> pp.err, dirs |-> pp.dirs]
                  ELSE parentsLoopBreak(pp.dirs, dn, ks, i + 1,
                                        [out EXCEPT ![i] = "/" \o Join(pp.parts, "/")], firstErr)

\* lines 192-208 with the names pathOf returned beside an error written to the
\* position (the partial path kept)
RECURSIVE parentsLoopPartial(_, _, _, _, _, _)
parentsLoopPartial(d, dn, ks, i, out, firstErr) ==
    IF i > Len(ks) THEN [Parents |-> out, err |-> firstErr, dirs |-> d]
    ELSE LET pf == fileOf(d, dn, ks[i])
             e1 == IF firstErr = "nil" THEN pf.err ELSE firstErr
         IN
         IF pf.err # "nil"
           THEN parentsLoopPartial(pf.dirs, dn, ks, i + 1, out, e1)
           ELSE LET pp == pathOf(pf.dirs, dn, pf.f)
                    e2 == IF firstErr = "nil" THEN pp.err ELSE firstErr
                IN parentsLoopPartial(pp.dirs, dn, ks, i + 1,
                                      [out EXCEPT ![i] = "/" \o Join(pp.parts, "/")], e2)

\* lines 192-208: for i, k := range f.Parents, from index i on
RECURSIVE parentsLoop(_, _, _, _, _, _)
parentsLoop(d, dn, ks, i, out, firstErr) ==
    IF i > Len(ks) THEN [Parents |-> out, err |-> firstErr, dirs |-> d]
    ELSE LET pf == fileOf(d, dn, ks[i])
             e1 == IF firstErr = "nil" THEN pf.err ELSE firstErr
         IN
         IF pf.err # "nil"
           THEN parentsLoop(pf.dirs, dn, ks, i + 1, out, e1)
           ELSE LET pp == pathOf(pf.dirs, dn, pf.f)
                    e2 == IF firstErr = "nil" THEN pp.err ELSE firstErr
                IN
                IF pp.err # "nil"
                  THEN parentsLoop(pp.dirs, dn, ks, i + 1, out, e2)
                  ELSE parentsLoop(pp.dirs, dn, ks, i + 1,
                                   [out EXCEPT ![i] = "/" \o Join(pp.parts, "/")], firstErr)

\* lines 167-210 (the scalar fields copied at lines 171-189 are kept to ID and
\* Name); a nil f gives Photo{}, nil
fileAsPhoto(d, dn, f) ==
    IF f = NilFile
      THEN [p |-> NoPhoto, err |-> "nil", dirs |-> d]
      ELSE LET ps == parentsLoop(d, dn, f.Parents, 1, [i \in 1..Len(f.Parents) |-> ""], "nil")
           IN [p |-> [ID |-> f.Id, Name |-> f.Name, Parents |-> ps.Parents],
               err |-> ps.err, dirs |-> ps.dirs]

\* the raw records handed to fileAsPhoto: nil, or a photo with up to
\* MaxParents parent identifiers
ParentLists == UNION {[1..n -> Ids] : n \in 0..MaxParents}

RawFiles == {NilFile} \cup {[Id |-> "ph", Name |-> "img.jpg", Parents |-> ks, ptr |-> 1] : ks \in ParentLists}

\* a task converts f while the lookups of the ids in dn fail
Enrich(f, dn) ==
    /\ nconv < MaxConv
    /\ nconv' = nconv + 1
    /\ LET res == fileAsPhoto(dirs, dn, f)
       IN /\ photo' = res.p
          /\ perr' = res.err
          /\ dirs' = res.dirs
    /\ raw' = f
    /\ down' = dn
    /\ dirs0' = dirs
    /\ UNCHANGED <<start, path>>
    /\ UNCHANGED <<gateVars, cancelled, sessVars>>
    /\ UNCHANGED <<dirSingle, rpc, rkey, rval, rerr, ncalls, raced, crashed, gets, okGets, badGets, asked, rets, failed>>

\* a task calls pathOf for the folder id (as srv.Get returned it) while the
\* lookups of the ids in dn fail
PathOf(id, dn) ==
    /\ nconv < MaxConv
    /\ nconv' = nconv + 1
    /\ LET res == pathOf(dirs, dn, File(id, 1))
       IN /\ path' = res.parts
          /\ perr' = res.err
          /\ dirs' = res.dirs
    /\ start' = File(id, 1)
    /\ down' = dn
    /\ dirs0' = dirs
    /\ UNCHANGED <<raw, photo>>
    /\ UNCHANGED <<gateVars, cancelled, sessVars>>
    /\ UNCHANGED <<dirSingle, rpc, rkey, rval, rerr, ncalls, raced, crashed, gets, okGets, badGets, asked, rets, failed>>

(***************************************************************************)
(* Photos, getPhotos, getChanges                           lines 27-147    *)
(*                                                                         *)
(* The remote listing is pages; page n is returned for the first token of  *)
(* the session when n = 1 and for PageToken(n) otherwise, and carries      *)
(* PageToken(n + 1) as its NextPageToken unless it is the last.  ch is     *)
(* unbuffered and its consumer keeps receiving: a send completes as soon   *)
(* as the sender reaches it, and appends the batch to delivered.           *)
(***************************************************************************)
\* srv.Changes.GetStartPageToken()
StartToken == "S"

PageToken(n) == "P" \o ToString(n)

NextPageToken(n) == IF n < Len(pages) THEN PageToken(n + 1) ELSE ""

\* the page the remote returns for a token of this session
PageOf(tok) == IF tok = sinceToken THEN 1
               ELSE CHOOSE n \in 1..Len(pages) : PageToken(n) = tok

NotReturned == [ch |-> "pending", token |-> "", err |-> "nil"]

\* line 105 (getPhotos sends whatever it has) and lines 134-136 (getChanges
\* sends only a non-empty batch): every task sends
SendsBatchAlways(photos) == TRUE

SendsBatch(photos) == sinceToken = "" \/ Len(photos) > 0

\* where a task goes after the entry before index i: on to entry i, or past
\* the loop (lines 105, 134-136)
AfterEntry(page, i, photos) ==
    IF i <= Len(pages[page]) THEN "conv"
    ELSE IF SendsBatch(photos) THEN "send" ELSE "done"

\* line 33: Photos calls do(GetStartPageToken)
PhotosCall ==
    /\ ~crashed
    /\ spc = "init"
    /\ spc' = "gettoken"
    /\ tokenCalls' = tokenCalls + 1
    /\ DoEnter(Drv)
    /\ UNCHANGED <<sinceToken, pages, r, nextToken, returned, ferr, fetches,
                   tpc, tpage, ti, tphotos, terr, delivered, closed, cancelAt, got>>

\* a step of the do() the session task is in (lines 33, 43, 74)
PhotosDo ==
    /\ ~crashed
    /\ spc \in {"gettoken", "first", "fetch"}
    /\ DoStep(Drv)
    /\ overloads' <= MaxSessOverload
    /\ UNCHANGED sessVars

\* lines 34-37: the start token arrived (or Photos returns nil, "", err)
PhotosToken ==
    /\ ~crashed
    /\ spc = "gettoken"
    /\ dpc[Drv] = "ret"
    /\ IF dret[Drv] = "ok"
         THEN /\ nextToken' = StartToken
              /\ spc' = "callfirst"
              /\ UNCHANGED returned
         ELSE /\ spc' = "failed"
              /\ returned' = [ch |-> "nil", token |-> "", err |-> dret[Drv]]
              /\ UNCHANGED nextToken
    /\ DoLeave(Drv)
    /\ UNCHANGED <<sinceToken, pages, r, ferr, fetches,
                   tpc, tpage, ti, tphotos, terr, delivered, closed, cancelAt, got, tokenCalls>>

\* lines 56 and 82: the first page is asked for: L(sinceToken) or L("")
PhotosFirst ==
    /\ ~crashed
    /\ spc = "callfirst"
    /\ spc' = "first"
    /\ fetches' = Append(fetches, sinceToken)
    /\ DoEnter(Drv)
    /\ UNCHANGED <<sinceToken, pages, r, nextToken, returned, ferr,
                   tpc, tpage, ti, tphotos, terr, delivered, closed, cancelAt, got, tokenCalls>>

\* lines 57-62 and 83-89 returning the cursor of the first page in place of
\* nextToken
PhotosReturnCursor ==
    /\ ~crashed
    /\ spc = "first"
    /\ dpc[Drv] = "ret"
    /\ IF dret[Drv] = "ok"
         THEN /\ r' = PageOf(sinceToken)
              /\ got' = Append(got, PageOf(sinceToken))
              /\ spc' = "spawn"
              /\ returned' = [ch |-> "ch", token |-> NextPageToken(1), err |-> "nil"]
         ELSE /\ spc' = "failed"
              /\ got' = Append(got, 0)
              /\ returned' = [ch |-> "nil",
                              token |-> IF sinceToken # "" THEN "" ELSE nextToken,
                              err |-> dret[Drv]]
              /\ UNCHANGED r
    /\ DoLeave(Drv)
    /\ UNCHANGED <<sinceToken, pages, nextToken, ferr, fetches,
                   tpc, tpage, ti, tphotos, terr, delivered, closed, cancelAt, tokenCalls>>

\* lines 57-62 and 83-89: the first page arrived: make ch, start the fetch
\* loop, return ch and nextToken; or return the error (with "" as the token
\* in change mode, nextToken in listing mode)
PhotosReturn ==
    /\ ~crashed
    /\ spc = "first"
    /\ dpc[Drv] = "ret"
    /\ IF dret[Drv] = "ok"
         THEN /\ r' = PageOf(sinceToken)
              /\ got' = Append(got, PageOf(sinceToken))
              /\ spc' = "spawn"
              /\ returned' = [ch |-> "ch", token |-> nextToken, err |-> "nil"]
         ELSE /\ spc' = "failed"
              /\ got' = Append(got, 0)
              /\ returned' = [ch |-> "nil",
                              token |-> IF sinceToken # "" THEN "" ELSE nextToken,
                              err |-> dret[Drv]]
              /\ UNCHANGED r
    /\ DoLeave(Drv)
    /\ UNCHANGED <<sinceToken, pages, nextToken, ferr, fetches,
                   tpc, tpage, ti, tphotos, terr, delivered, closed, cancelAt, tokenCalls>>

\* lines 95-106 and 122-137: go func() { ... }(): the next task exists
LoopSpawn ==
    /\ ~crashed
    /\ spc = "spawn"
    /\ \E t \in Tasks :
         /\ tpc[t] = "none"
         /\ \A u \in Tasks : u < t => tpc[u] # "none"
         /\ tpc' = [tpc EXCEPT ![t] = "start"]
    /\ spc' = "check"
    /\ UNCHANGED <<gateVars, sinceToken, pages, r, nextToken, returned, ferr, fetches,
                   tpage, ti, tphotos, terr, delivered, closed, cancelAt, got, tokenCalls>>

\* lines 108-110 and 138-140: no next page: return, and the deferred close(ch)
LoopEnd ==
    /\ ~crashed
    /\ spc = "check"
    /\ NextPageToken(r) = ""
    /\ closed' = TRUE
    /\ spc' = "done"
    /\ UNCHANGED <<gateVars, sinceToken, pages, r, nextToken, returned, ferr, fetches,
                   tpc, tpage, ti, tphotos, terr, delivered, cancelAt, got, tokenCalls>>

\* lines 112 and 142 made to wait: L(r.NextPageToken) is called only once the
\* task started for the page in r has finished
LoopFetchAfterTask ==
    /\ ~crashed
    /\ spc = "check"
    /\ NextPageToken(r) # ""
    /\ tpc[r] = "done"
    /\ spc' = "fetch"
    /\ fetches' = Append(fetches, NextPageToken(r))
    /\ DoEnter(Drv)
    /\ UNCHANGED <<sinceToken, pages, r, nextToken, returned, ferr,
                   tpc, tpage, ti, tphotos, terr, delivered, closed, cancelAt, got, tokenCalls>>

\* lines 112 and 142: L(r.NextPageToken) is called
LoopFetch ==
    /\ ~crashed
    /\ spc = "check"
    /\ NextPageToken(r) # ""
    /\ spc' = "fetch"
    /\ fetches' = Append(fetches, NextPageToken(r))
    /\ DoEnter(Drv)
    /\ UNCHANGED <<sinceToken, pages, r, nextToken, returned, ferr,
                   tpc, tpage, ti, tphotos, terr, delivered, closed, cancelAt, got, tokenCalls>>

\* lines 112 and 142: r, err = L(...): r is the new page, or nil with err set
LoopFetched ==
    /\ ~crashed
    /\ spc = "fetch"
    /\ dpc[Drv] = "ret"
    /\ IF dret[Drv] = "ok"
         THEN /\ r' = PageOf(fetches[Len(fetches)])
              /\ got' = Append(got, PageOf(fetches[Len(fetches)]))
              /\ spc' = "spawn"
              /\ UNCHANGED ferr
         ELSE /\ r' = 0
              /\ got' = Append(got, 0)
              /\ ferr' = dret[Drv]
              /\ spc' = "senderr"
    /\ DoLeave(Drv)
    /\ UNCHANGED <<sinceToken, pages, nextToken, returned, fetches,
                   tpc, tpage, ti, tphotos, terr, delivered, closed, cancelAt, tokenCalls>>

\* lines 113 and 143: ch <- MaybePhotos{Err: err}
LoopSendErr ==
    /\ ~crashed
    /\ spc = "senderr"
    /\ delivered' = Append(delivered, [from |-> 0, page |-> 0, Photos |-> <<>>, Err |-> ferr])
    /\ spc' = "return"
    /\ UNCHANGED <<gateVars, sinceToken, pages, r, nextToken, returned, ferr, fetches,
                   tpc, tpage, ti, tphotos, terr, closed, cancelAt, got, tokenCalls>>

\* lines 114 and 144: return, and the deferred close(ch)
LoopClose ==
    /\ ~crashed
    /\ spc = "return"
    /\ closed' = TRUE
    /\ spc' = "done"
    /\ UNCHANGED <<gateVars, sinceToken, pages, r, nextToken, returned, ferr, fetches,
                   tpc, tpage, ti, tphotos, terr, delivered, cancelAt, got, tokenCalls>>

\* lines 96-97 and 123-124: the task reads r (r.Files, r.Changes); a nil r is
\* a nil pointer dereference, which panics
TaskStart(t) ==
    /\ ~crashed
    /\ tpc[t] = "start"
    /\ IF r = 0
         THEN /\ crashed' = TRUE
              /\ UNCHANGED <<tpc, tpage, ti>>
         ELSE /\ tpage' = [tpage EXCEPT ![t] = r]
              /\ ti' = [ti EXCEPT ![t] = 1]
              /\ tpc' = [tpc EXCEPT ![t] = AfterEntry(r, 1, <<>>)]
              /\ UNCHANGED crashed
    /\ UNCHANGED <<gateVars, sinceToken, pages, spc, r, nextToken, returned, ferr, fetches,
                   tphotos, terr, delivered, closed, cancelAt, got, tokenCalls>>

\* lines 97-104 and 124-133 without the return of lines 102 and 130: the loop
\* goes on to the next entry after an error
TaskConvertOn(t, e) ==
    /\ ~crashed
    /\ tpc[t] = "conv"
    /\ LET page == tpage[t]
           i == ti[t]
           photos == IF pages[page][i] = "gone" THEN tphotos[t]
                     ELSE Append(tphotos[t], <<page, i>>)
           err == IF pages[page][i] = "gone" THEN "nil" ELSE e
       IN /\ tphotos' = [tphotos EXCEPT ![t] = photos]
          /\ terr' = [terr EXCEPT ![t] = err]
          /\ ti' = [ti EXCEPT ![t] = i + 1]
          /\ tpc' = [tpc EXCEPT ![t] = AfterEntry(page, i + 1, photos)]
    /\ UNCHANGED <<gateVars, sinceToken, pages, spc, r, nextToken, returned, ferr, fetches,
                   tpage, delivered, closed, crashed, cancelAt, got, tokenCalls>>

\* lines 97-104 and 124-133: one entry of the page: a change without a File is
\* skipped; otherwise fileAsPhoto's photo is appended and its error e, if any,
\* ends the loop
TaskConvert(t, e) ==
    /\ ~crashed
    /\ tpc[t] = "conv"
    /\ LET page == tpage[t]
           i == ti[t]
           photos == IF pages[page][i] = "gone" THEN tphotos[t]
                     ELSE Append(tphotos[t], <<page, i>>)
           err == IF pages[page][i] = "gone" THEN "nil" ELSE e
       IN /\ tphotos' = [tphotos EXCEPT ![t] = photos]
          /\ terr' = [terr EXCEPT ![t] = err]
          /\ ti' = [ti EXCEPT ![t] = i + 1]
          /\ tpc' = [tpc EXCEPT ![t] = IF err # "nil" THEN "send"
                                        ELSE AfterEntry(page, i + 1, photos)]
    /\ UNCHANGED <<gateVars, sinceToken, pages, spc, r, nextToken, returned, ferr, fetches,
                   tpage, delivered, closed, crashed, cancelAt, got, tokenCalls>>

\* lines 101, 105, 129, 135: ch <- MaybePhotos{...}; a send on the closed
\* channel panics
TaskSend(t) ==
    /\ ~crashed
    /\ tpc[t] = "send"
    /\ IF closed
         THEN /\ crashed' = TRUE
              /\ UNCHANGED <<tpc, delivered>>
         ELSE /\ delivered' = Append(delivered, [from |-> t, page |-> tpage[t],
                                                 Photos |-> tphotos[t], Err |-> terr[t]])
              /\ tpc' = [tpc EXCEPT ![t] = "done"]
              /\ UNCHANGED crashed
    /\ UNCHANGED <<gateVars, sinceToken, pages, spc, r, nextToken, returned, ferr, fetches,
                   tpage, ti, tphotos, terr, closed, cancelAt, got, tokenCalls>>

(***************************************************************************)
(* SpecGate: NGate tasks call do() concurrently, again and again.          *)
(***************************************************************************)
GateCall(p) ==
    /\ DoEnter(p)
    /\ UNCHANGED <<cancelled, dirVars, enrVars, sessVars>>

GateDo(p) ==
    /\ DoStep(p)
    /\ UNCHANGED <<cancelled, dirVars, enrVars, sessVars>>

GateReturn(p) ==
    /\ DoLeave(p)
    /\ UNCHANGED <<cancelled, dirVars, enrVars, sessVars>>

GateCancel ==
    /\ Cancel
    /\ UNCHANGED <<gateVars, dirVars, enrVars, sessVars>>

InitGateVars ==
    /\ Rate = InitialRate * Scale
    /\ cancelled = FALSE
    /\ overloads = 0
    /\ dpc = [p \in Procs |-> "idle"]
    /\ dret = [p \in Procs |-> "none"]
    /\ dlim = [p \in Procs |-> 0]
    /\ dstat = [p \in Procs |-> NoStat]
    /\ started = {}

InitDirVars ==
    /\ dirs = [k \in Ids |-> NilFile]
    /\ dirSingle = [k \in Ids |-> NoCall]
    /\ rpc = [p \in RProcs |-> "idle"]
    /\ rkey = [p \in RProcs |-> ""]
    /\ rval = [p \in RProcs |-> NilFile]
    /\ rerr = [p \in RProcs |-> "nil"]
    /\ ncalls = [p \in RProcs |-> 0]
    /\ raced = {}
    /\ crashed = FALSE
    /\ gets = [k \in Ids |-> 0]
    /\ okGets = [k \in Ids |-> 0]
    /\ badGets = [k \in Ids |-> 0]
    /\ asked = {}
    /\ rets = [k \in Ids |-> {}]
    /\ failed = {}

InitEnrVars ==
    /\ raw = NilFile
    /\ down = {}
    /\ dirs0 = [k \in Ids |-> NilFile]
    /\ photo = NoPhoto
    /\ perr = "nil"
    /\ nconv = 0
    /\ start = NilFile
    /\ path = <<>>

InitSessVars ==
    /\ spc = "init"
    /\ r = 0
    /\ nextToken = ""
    /\ returned = NotReturned
    /\ ferr = "nil"
    /\ fetches = <<>>
    /\ tpc = [t \in Tasks |-> "none"]
    /\ tpage = [t \in Tasks |-> 0]
    /\ ti = [t \in Tasks |-> 0]
    /\ tphotos = [t \in Tasks |-> <<>>]
    /\ terr = [t \in Tasks |-> "nil"]
    /\ delivered = <<>>
    /\ closed = FALSE
    /\ cancelAt = "none"
    /\ got = <<>>
    /\ tokenCalls = 0

InitGate ==
    /\ InitGateVars
    /\ InitDirVars
    /\ InitEnrVars
    /\ InitSessVars
    /\ sinceToken = ""
    /\ pages = <<>>

NextGate ==
    \/ \E p \in GProcs : GateCall(p)
    \/ \E p \in GProcs : GateDo(p)
    \/ \E p \in GProcs : GateReturn(p)
    \/ GateCancel

SpecGate == InitGate /\ [][NextGate]_vars

(***************************************************************************)
(* SpecDirs: NRes tasks (the per-page tasks of getPhotos / getChanges,     *)
(* through fileAsPhoto) call fileOf() concurrently, MaxCalls times each.   *)
(***************************************************************************)
DirsCall(p, k) ==
    /\ FileOfCall(p, k)
    /\ UNCHANGED <<gateVars, cancelled, enrVars, sessVars>>

DirsEnter(p) ==
    /\ FileOfEnter(p)
    /\ UNCHANGED <<gateVars, cancelled, enrVars, sessVars>>

DirsReadBegin(p) ==
    /\ FileOfReadBegin(p)
    /\ UNCHANGED <<gateVars, cancelled, enrVars, sessVars>>

DirsReadEnd(p) ==
    /\ FileOfReadEnd(p)
    /\ UNCHANGED <<cancelled, enrVars, sessVars>>

DirsDo(p) ==
    /\ FileOfDo(p)
    /\ UNCHANGED <<cancelled, enrVars, sessVars>>

DirsAfterDo(p) ==
    /\ FileOfAfterDo(p)
    /\ UNCHANGED <<cancelled, enrVars, sessVars>>

DirsWriteBegin(p) ==
    /\ FileOfWriteBegin(p)
    /\ UNCHANGED <<cancelled, enrVars, sessVars>>

DirsWriteEnd(p) ==
    /\ FileOfWriteEnd(p)
    /\ UNCHANGED <<cancelled, enrVars, sessVars>>

DirsDone(p) ==
    /\ FileOfDone(p)
    /\ UNCHANGED <<cancelled, enrVars, sessVars>>

DirsDelete(p) ==
    /\ FileOfDelete(p)
    /\ UNCHANGED <<cancelled, enrVars, sessVars>>

DirsReturn(p) ==
    /\ FileOfReturn(p)
    /\ UNCHANGED <<cancelled, enrVars, sessVars>>

DirsCancel ==
    /\ ~crashed
    /\ Cancel
    /\ UNCHANGED <<gateVars, dirVars, enrVars, sessVars>>

InitDirs ==
    /\ InitGateVars
    /\ InitDirVars
    /\ InitEnrVars
    /\ InitSessVars
    /\ sinceToken = ""
    /\ pages = <<>>

NextDirs ==
    \/ \E p \in RProcs, k \in DirIds : DirsCall(p, k)
    \/ \E p \in RProcs : DirsEnter(p)
    \/ \E p \in RProcs : DirsReadBegin(p)
    \/ \E p \in RProcs : DirsReadEnd(p)
    \/ \E p \in RProcs : DirsDo(p)
    \/ \E p \in RProcs : DirsAfterDo(p)
    \/ \E p \in RProcs : DirsWriteBegin(p)
    \/ \E p \in RProcs : DirsWriteEnd(p)
    \/ \E p \in RProcs : DirsDone(p)
    \/ \E p \in RProcs : DirsDelete(p)
    \/ \E p \in RProcs : DirsReturn(p)
    \/ DirsCancel

SpecDirs == InitDirs /\ [][NextDirs]_vars

(***************************************************************************)
(* SpecEnrich: one task converts raw records one after the other, the      *)
(* lookups of any set of identifiers failing during each conversion.       *)
(***************************************************************************)
InitEnrich ==
    /\ InitGateVars
    /\ InitDirVars
    /\ InitEnrVars
    /\ InitSessVars
    /\ sinceToken = ""
    /\ pages = <<>>

NextEnrich == \E f \in RawFiles, dn \in SUBSET Ids : Enrich(f, dn)

SpecEnrich == InitEnrich /\ [][NextEnrich]_vars

(***************************************************************************)
(* SpecPath: one task calls pathOf for one folder after the other, the     *)
(* lookups of any set of identifiers failing during each call.             *)
(***************************************************************************)
InitPath ==
    /\ InitGateVars
    /\ InitDirVars
    /\ InitEnrVars
    /\ InitSessVars
    /\ sinceToken = ""
    /\ pages = <<>>

NextPath == \E id \in Ids, dn \in SUBSET Ids : PathOf(id, dn)

SpecPath == InitPath /\ [][NextPath]_vars

(***************************************************************************)
(* Spec: one session.  Photos is called with or without a sinceToken on a  *)
(* listing of up to MaxPages pages of up to MaxItems entries; fileAsPhoto  *)
(* returns an error or not; ctx may be cancelled at any time.              *)
(***************************************************************************)
SessPhotosCall == PhotosCall /\ UNCHANGED <<cancelled, dirVars, enrVars>>

SessPhotosDo == PhotosDo /\ UNCHANGED <<cancelled, dirVars, enrVars>>

SessPhotosToken == PhotosToken /\ UNCHANGED <<cancelled, dirVars, enrVars>>

SessPhotosFirst == PhotosFirst /\ UNCHANGED <<cancelled, dirVars, enrVars>>

SessPhotosReturn == PhotosReturn /\ UNCHANGED <<cancelled, dirVars, enrVars>>

SessLoopSpawn == LoopSpawn /\ UNCHANGED <<cancelled, dirVars, enrVars>>

SessLoopEnd == LoopEnd /\ UNCHANGED <<cancelled, dirVars, enrVars>>

SessLoopFetch == LoopFetch /\ UNCHANGED <<cancelled, dirVars, enrVars>>

SessLoopFetched == LoopFetched /\ UNCHANGED <<cancelled, dirVars, enrVars>>

SessLoopSendErr == LoopSendErr /\ UNCHANGED <<cancelled, dirVars, enrVars>>

SessLoopClose == LoopClose /\ UNCHANGED <<cancelled, dirVars, enrVars>>

SessTaskStart(t) == TaskStart(t) /\ UNCHANGED <<cancelled, dirRest, enrVars>>

SessTaskConvert(t, e) == TaskConvert(t, e) /\ UNCHANGED <<cancelled, dirRest, enrVars>>

SessTaskSend(t) == TaskSend(t) /\ UNCHANGED <<cancelled, dirRest, enrVars>>

SessCancel ==
    /\ ~crashed
    /\ Cancel
    /\ cancelAt' = IF spc = "fetch" /\ dpc[Drv] = "wait" THEN "gate" ELSE "other"
    /\ UNCHANGED <<gateVars, dirVars, enrVars>>
    /\ UNCHANGED <<sinceToken, pages, spc, r, nextToken, returned, ferr, fetches,
                   tpc, tpage, ti, tphotos, terr, delivered, closed, got, tokenCalls>>

\* the pages a listing (kinds = {"file"}) or a change feed can consist of
PageSet(kinds) == UNION {[1..n -> kinds] : n \in 0..MaxItems}

Listings(kinds) == UNION {[1..n -> PageSet(kinds)] : n \in 1..MaxPages}

Init ==
    /\ InitGateVars
    /\ InitDirVars
    /\ InitEnrVars
    /\ InitSessVars
    /\ \/ sinceToken = "" /\ pages \in Listings({"file"})
       \/ sinceToken = "T" /\ pages \in Listings({"file", "gone"})

Next ==
    \/ SessPhotosCall
    \/ SessPhotosDo
    \/ SessPhotosToken
    \/ SessPhotosFirst
    \/ SessPhotosReturn
    \/ SessLoopSpawn
    \/ SessLoopEnd
    \/ SessLoopFetch
    \/ SessLoopFetched
    \/ SessLoopSendErr
    \/ SessLoopClose
    \/ \E t \in Tasks : SessTaskStart(t)
    \/ \E t \in Tasks, e \in {"nil", "conv"} : SessTaskConvert(t, e)
    \/ \E t \in Tasks : SessTaskSend(t)
    \/ SessCancel

Spec == Init /\ [][Next]_vars

(***************************************************************************)
(* Claims about fileOf and the directory cache (SpecDirs).                 *)
(***************************************************************************)
\* C2 as stated: for callers of fileOf that all resolve one identifier k, not
\* cached at the start, srv.Get(k) is invoked exactly once (never twice) and
\* all the callers get the same entry.
C2_InvokedExactlyOnce ==
    \A k \in Ids : asked = {k} =>
        /\ gets[k] <= 1
        /\ Cardinality(rets[k]) <= 1
        /\ (rets[k] # {} => gets[k] = 1)

\* C2 amended: for callers of fileOf that all resolve one identifier k, at most
\* one srv.Get(k) succeeds; srv.Get(k) is invoked at most once unless a gated
\* lookup of k was overloaded, failed or cancelled; every caller that returns
\* without error returns the one entry that lookup produced, which is the
\* entry in the cache.
C2_OneSuccessfulLookup ==
    \A k \in Ids : asked = {k} =>
        /\ okGets[k] <= 1
        /\ Cardinality(rets[k]) <= 1
        /\ (badGets[k] = 0 => gets[k] <= 1)
        /\ (rets[k] # {} => okGets[k] = 1 /\ rets[k] = {dirs[k]})

\* two tasks called fileOf for the same uncached identifier at the same time,
\* one waited for the other's call, and both hold the same file
C2_Witness ==
    \E k \in Ids : \E p, q \in RProcs :
        /\ asked = {k}
        /\ p # q
        /\ ncalls[p] = 1 /\ ncalls[q] = 1
        /\ rpc[p] = "delete" /\ rpc[q] = "ret"
        /\ rerr[p] = "nil" /\ rerr[q] = "nil"
        /\ rval[p] = rval[q] /\ rval[p] # NilFile
        /\ gets[k] = 1

\* C3: no task writes the dirs map while another task reads or writes it.
C3_NoConcurrentMapAccess ==
    \A p, q \in RProcs :
        (p # q /\ rpc[p] = "writing") => rpc[q] \notin {"reading", "writing"}

\* C4: once an identifier is resolved, later fileOf calls return the cached
\* entry without a remote lookup (successful lookups per identifier never
\* exceed one, all returns are the one entry), and an entry of the cache is
\* never changed or removed.
C4_CachedForever ==
    [][\A k \in Ids :
          /\ okGets'[k] <= 1
          /\ Cardinality(rets'[k]) <= 1
          /\ (dirs[k] # NilFile => dirs'[k] = dirs[k] /\ gets'[k] = gets[k])]_vars

(***************************************************************************)
(* Claims about the rate gate (SpecGate).                                  *)
(***************************************************************************)
\* C5: when a task that is the only caller of do() gets the successful result
\* after k overload answers, f was invoked k+1 times, each after a granted
\* Rate.Wait, and the limit is the limit at entry times 0.9^k.
C5_RetryThenSucceed ==
    \A p \in GProcs :
        (started = {p} /\ dpc[p] = "ret" /\ dret[p] = "ok") =>
            /\ dstat[p].calls = dstat[p].over + 1
            /\ dstat[p].waits = dstat[p].calls
            /\ Rate * Pow(10, dstat[p].over) = dstat[p].rate0 * Pow(9, dstat[p].over)

\* the only caller succeeded at the 4th invocation, after 3 overload answers,
\* having entered with the initial limit
C5_Witness ==
    \E p \in GProcs :
        /\ started = {p} /\ dpc[p] = "ret" /\ dret[p] = "ok"
        /\ ~cancelled
        /\ dstat[p].over = 3 /\ dstat[p].calls = 4
        /\ dstat[p].rate0 = InitialRate * Scale
        /\ Rate * 1000 = InitialRate * Scale * 729

\* C6: no step sets the limit of the gate to a value higher than it had.
C6_RateNeverIncreases == [][Rate' <= Rate]_vars

(***************************************************************************)
(* Claims about fileAsPhoto's parent paths (SpecEnrich).  What a position  *)
(* should hold is stated from the remote folders, the cache on entry       *)
(* (dirs0) and the failing lookups (down), not from the model of the code. *)
(***************************************************************************)
\* fileOf(k) succeeds during the call: k is cached or its lookup does not fail
Avail(k) == dirs0[k] # NilFile \/ k \notin down

\* k and every folder on its chain of first parents can be resolved
RECURSIVE Resolved(_)
Resolved(k) ==
    /\ Avail(k)
    /\ (RemoteParents(k) = <<>> \/ Resolved(RemoteParents(k)[1]))

\* the first folder on k's chain of first parents whose lookup fails
RECURSIVE FirstBad(_)
FirstBad(k) == IF ~Avail(k) \/ RemoteParents(k) = <<>> THEN k ELSE FirstBad(RemoteParents(k)[1])

\* "/" followed by the names from the root-most ancestor down to k, "/"-joined
RECURSIVE FullPath(_)
FullPath(k) ==
    IF RemoteParents(k) = <<>>
      THEN "/" \o RemoteName(k)
      ELSE FullPath(RemoteParents(k)[1]) \o "/" \o RemoteName(k)

Converted == nconv > 0 /\ raw # NilFile

\* position i names a parent that resolves but whose own parent does not
GrandparentFails(i) ==
    LET k == raw.Parents[i] IN
    /\ Avail(k)
    /\ RemoteParents(k) # <<>>
    /\ ~Avail(RemoteParents(k)[1])

\* C9 as stated: when a parent resolves and the lookup of its own parent fails,
\* the position holds a partial path (it is not left empty), the error is not
\* nil, and the positions whose ancestors all resolve hold their full path.
C9_PartialPathKept ==
    Converted =>
        \A i \in 1..Len(raw.Parents) :
            GrandparentFails(i) =>
                /\ photo.Parents[i] # ""
                /\ perr # "nil"
                /\ \A j \in 1..Len(raw.Parents) :
                      Resolved(raw.Parents[j]) => photo.Parents[j] = FullPath(raw.Parents[j])

\* C9 amended: when a parent resolves and the lookup of its own parent fails,
\* the position is left as the empty string (the partial path pathOf returned
\* is dropped), the error is not nil, and the positions whose ancestors all
\* resolve hold their full path.
C9_PositionLeftEmpty ==
    Converted =>
        \A i \in 1..Len(raw.Parents) :
            GrandparentFails(i) =>
                /\ photo.Parents[i] = ""
                /\ perr # "nil"
                /\ \A j \in 1..Len(raw.Parents) :
                      Resolved(raw.Parents[j]) => photo.Parents[j] = FullPath(raw.Parents[j])

\* parents "b" and "root" with the lookup of "a" (the parent of "b") failing:
\* "b" resolved, its position is empty, the sibling has its path
C9_Witness ==
    /\ Converted
    /\ raw.Parents = <<"b", "root">>
    /\ down = {"a"} /\ dirs0["a"] = NilFile
    /\ dirs["b"] # NilFile
    /\ photo.Parents = <<"", "/My Drive">>
    /\ perr = GetErr("a")

\* C10: Parents has the length of the input; every identifier is processed,
\* also after an earlier one failed (what can be looked up ends up cached); a
\* failed position is the empty string, a resolved one "/" + the joined path;
\* the error is that of the lowest-index failing identifier, or nil.
C10_ParentPaths ==
    Converted =>
        LET ks == raw.Parents
            bad == {i \in 1..Len(ks) : ~Resolved(ks[i])}
        IN /\ Len(photo.Parents) = Len(ks)
           /\ \A i \in 1..Len(ks) :
                 /\ photo.Parents[i] = IF i \in bad THEN "" ELSE FullPath(ks[i])
                 /\ Avail(ks[i]) => dirs[ks[i]] # NilFile
           /\ perr = IF bad = {} THEN "nil"
                     ELSE GetErr(FirstBad(ks[CHOOSE i \in bad : \A j \in bad : i <= j]))

\* two identifiers whose paths fail at different folders: both positions are
\* empty, the error is the first one's, and the second was still looked up
C10_Witness ==
    /\ Converted
    /\ raw.Parents = <<"c", "a">>
    /\ down = {"b", "root"} /\ dirs0 = [k \in Ids |-> NilFile]
    /\ photo.Parents = <<"", "">>
    /\ perr = GetErr("b")
    /\ dirs["a"] # NilFile

(***************************************************************************)
(* Claims about the session (Spec).                                        *)
(***************************************************************************)
RECURSIVE SumLen(_)
SumLen(ss) == IF ss = <<>> THEN 0 ELSE Len(Head(ss)) + SumLen(Tail(ss))

BatchPhotos == [i \in 1..Len(delivered) |-> delivered[i].Photos]

\* C1: in a full listing in which no page fetch and no conversion fails, the
\* channel is closed only after one Batch per fetched page has been
\* delivered, the Batches holding all the items of all the pages together.
C1_AllBatchesBeforeClose ==
    (/\ sinceToken = ""
     /\ closed
     /\ ferr = "nil"
     /\ \A t \in Tasks : terr[t] = "nil") =>
        /\ Len(delivered) = Len(pages)
        /\ SumLen(BatchPhotos) = SumLen(pages)

\* the error Batch of the fetch loop, carrying e, has been received
ErrBatchDelivered(e) ==
    \E i \in 1..Len(delivered) :
        delivered[i].from = 0 /\ delivered[i].Photos = <<>> /\ delivered[i].Err = e

\* C7: once a page fetch after the first, cancelled while it waited in the
\* rate gate, has failed with the cancellation error, no further page is fetched and the session ends only with the error
\* Batch delivered and the channel closed after it: the channel is not closed
\* and the process does not die before the error Batch is received.
C7_ErrorBatchThenClose ==
    (cancelAt = "gate" /\ ferr = "cancel") =>
        /\ spc \in {"senderr", "return", "done"}
        /\ Len(fetches) <= Len(pages)
        /\ closed => ErrBatchDelivered("cancel")
        /\ crashed => (closed /\ ErrBatchDelivered("cancel"))

\* every entry of page n is a change without a File (or n has no entry)
AllGone(n) == \A i \in 1..Len(pages[n]) : pages[n][i] = "gone"

\* C8: in change-feed mode a task whose page has no entry with a File sends
\* no Batch; when the loop ends at an empty next-page cursor the channel is
\* closed and the loop has sent no error Batch; and when every page of the
\* feed is such a page, nothing at all is delivered and nothing panics.
C8_SilentPage ==
    sinceToken # "" =>
        /\ \A t \in Tasks :
              (tpage[t] # 0 /\ AllGone(tpage[t])) =>
                  /\ tpc[t] # "send"
                  /\ \A i \in 1..Len(delivered) : delivered[i].from # t
        /\ (spc = "done" /\ ferr = "nil") =>
              /\ closed
              /\ \A i \in 1..Len(delivered) : delivered[i].from # 0
              /\ (\A n \in 1..Len(pages) : AllGone(n)) => (delivered = <<>> /\ ~crashed)

\* a change feed of one page whose only entry is a removal: its task is done,
\* the channel is closed, nothing was delivered
C8_Witness ==
    /\ sinceToken = "T"
    /\ pages = << <<"gone">> >>
    /\ spc = "done" /\ closed /\ ~crashed
    /\ tpc[1] = "done" /\ tpage[1] = 1
    /\ delivered = <<>>

\* C11: the n-th task of a session is the one started for the n-th page
\* fetched; it reads that page and no other, so that no page is read by two
\* tasks (delivered in two Batches) and none is skipped by a task that saw a
\* later response in r.
C11_OnePagePerTask ==
    /\ \A t \in Tasks : tpage[t] # 0 => tpage[t] = t
    /\ \A i, j \in 1..Len(delivered) :
          (i # j /\ delivered[i].from # 0 /\ delivered[j].from # 0) =>
              delivered[i].page # delivered[j].page

\* C13: when a page fetch after the first fails with an error that is not the
\* overload answer, no further fetch is issued, one Batch with no items and
\* that error is sent and the channel closed; that Batch is the last one
\* received, and no Batch of an earlier page is lost (its task left to send
\* on the closed channel).  Stated for the runs in which nothing panicked.
C13_ErrorBatchLast ==
    (ferr = "fail" /\ ~crashed) =>
        /\ spc \in {"senderr", "return", "done"}
        /\ closed => ErrBatchDelivered("fail")
        /\ closed => \A t \in Tasks : tpc[t] \in {"none", "done"}
        /\ \A i \in 1..Len(delivered) : delivered[i].from = 0 => i = Len(delivered)

\* C14: whenever the channel is closed, no task of the session has a Batch
\* left to send.
C14_NoSendAfterClose ==
    closed => \A t \in Tasks : tpc[t] # "send"

\* the entries of a page that carry a file, among its first n, in order
Convertible(page, n) ==
    SelectSeq([i \in 1..n |-> <<page, i>>], LAMBDA x : pages[page][x[2]] # "gone")

\* the Batches received from task t
BatchesOf(t) == {i \in 1..Len(delivered) : delivered[i].from = t}

\* C12: a task sends at most one Batch.  What it holds is, in the order of
\* the response, the convertible entries of its page it has gone through; an
\* error ends its loop at the entry that returned it (the last of its
\* photos), so a Batch is either all the convertible entries without error or
\* that prefix with the error, and the task is done once it has sent.  The
\* step in which a conversion fails changes no other task and not the fetch
\* loop.
C12_OneBatchPerTask ==
    /\ [](\A t \in Tasks :
            /\ Cardinality(BatchesOf(t)) <= 1
            /\ tpage[t] # 0 =>
                  /\ tphotos[t] = Convertible(tpage[t], ti[t] - 1)
                  /\ terr[t] # "nil" =>
                        /\ tpc[t] \in {"send", "done"}
                        /\ tphotos[t] # <<>>
                        /\ tphotos[t][Len(tphotos[t])] = <<tpage[t], ti[t] - 1>>
                  /\ (terr[t] = "nil" /\ tpc[t] \in {"send", "done"}) =>
                        tphotos[t] = Convertible(tpage[t], Len(pages[tpage[t]]))
            /\ \A i \in BatchesOf(t) :
                  /\ tpc[t] = "done"
                  /\ delivered[i].Photos = tphotos[t]
                  /\ delivered[i].Err = terr[t])
    /\ [][\A t \in Tasks :
            (terr[t] = "nil" /\ terr'[t] # "nil") =>
                /\ spc' = spc
                /\ closed' = closed
                /\ \A u \in Tasks \ {t} : tpc'[u] = tpc[u] /\ tphotos'[u] = tphotos[u]]_vars

\* page 1 has two files and the conversion of the first failed: its task sent
\* that one photo with the error; the task of page 2 sent its Batch after it
C12_Witness ==
    /\ pages = << <<"file", "file">>, <<"file">> >>
    /\ delivered = << [from |-> 1, page |-> 1, Photos |-> << <<1, 1>> >>, Err |-> "conv"],
                      [from |-> 2, page |-> 2, Photos |-> << <<2, 1>> >>, Err |-> "nil"] >>
    /\ tpc = <<"done", "done">>

\* the next-page cursor the response for page n carries
Cursor(n) == IF n < Len(pages) THEN "P" \o ToString(n + 1) ELSE ""

\* C18: at most one page fetch is in flight; every fetch after the first was
\* issued after the previous fetch had returned a page, with the cursor of
\* that page; and whenever the loop has a cursor to go on with it can issue
\* the fetch, whatever the tasks are doing.
C18_SequentialFetches ==
    /\ Len(fetches) - Len(got) \in {0, 1}
    /\ (Len(fetches) > Len(got)) <=> (spc \in {"first", "fetch"})
    /\ \A i \in 2..Len(fetches) :
          /\ got[i - 1] # 0
          /\ Cursor(got[i - 1]) # ""
          /\ fetches[i] = Cursor(got[i - 1])
    /\ (spc = "check" /\ ~crashed /\ Cursor(r) # "") => ENABLED SessLoopFetch

\* the fetch of page 2 is in flight, issued with page 1's cursor, while the
\* task started for page 1 has not run yet
C18_Witness ==
    /\ Len(pages) = 2
    /\ fetches = <<sinceToken, "P2">>
    /\ got = <<1>>
    /\ spc = "fetch"
    /\ tpc[1] = "start"

\* C19: Photos makes one do(GetStartPageToken) call, before any page fetch;
\* the token returned with a channel is the start token, in both modes; no
\* page fetch is issued with the start token (the first is issued with
\* sinceToken, "" for a listing, the others with page cursors); and the
\* token Photos returns is never a page cursor.
C19_StartTokenOnly ==
    /\ tokenCalls = IF spc = "init" THEN 0 ELSE 1
    /\ fetches # <<>> => nextToken = StartToken
    /\ returned.ch = "ch" => returned.token = StartToken
    /\ \A i \in 1..Len(fetches) :
          /\ fetches[i] # StartToken
          /\ fetches[i] = IF i = 1 THEN sinceToken ELSE "P" \o ToString(i)
    /\ \A n \in 1..(MaxPages + 1) : returned.token # "P" \o ToString(n)
    /\ returned.token \in {"", StartToken}

\* a change session of two pages has returned its channel with the start
\* token, and has fetched with sinceToken and page 1's cursor
C19_Witness ==
    /\ sinceToken = "T"
    /\ returned = [ch |-> "ch", token |-> "S", err |-> "nil"]
    /\ fetches = <<"T", "P2">>
    /\ got = <<1, 2>>
    /\ tokenCalls = 1

(***************************************************************************)
(* More claims about the rate gate (SpecGate).                             *)
(***************************************************************************)
\* C16: with several tasks in do(), every overload answer decays the limit
\* once: whenever no task is between its overload answer and its SetLimit,
\* the limit is the initial limit times 0.9^k, k the overload answers given.
C16_EveryOverloadDecays ==
    (\A p \in GProcs : dpc[p] \notin {"limit", "setlimit"}) =>
        Rate * Pow(10, overloads) = InitialRate * Scale * Pow(9, overloads)

\* C17: a call of f that is not answered with the overload error ends do()
\* in that step (with the result, or with nil and the error), and a wait on
\* the cancelled ctx ends it with the cancellation error without calling f;
\* neither step changes the limit; do() returns the error having invoked f
\* once more than it was told to back off (not at all after the failure or
\* the cancellation), and the task then only leaves do().
C17_ErrorReturnsAtOnce ==
    /\ [](\A p \in GProcs :
            dpc[p] = "ret" =>
                /\ dret[p] = "fail" => (dstat[p].calls = dstat[p].over + 1
                                        /\ dstat[p].waits = dstat[p].calls)
                /\ dret[p] = "cancel" => (dstat[p].calls = dstat[p].over
                                          /\ dstat[p].waits = dstat[p].calls))
    /\ [][\A p \in GProcs :
            /\ (dret[p] = "none" /\ dret'[p] \in {"fail", "cancel"}) =>
                  (dpc'[p] = "ret" /\ Rate' = Rate /\ overloads' = overloads)
            /\ (dpc[p] = "call" /\ dpc'[p] # "call" /\ dstat'[p].over = dstat[p].over) =>
                  (dpc'[p] = "ret" /\ dret'[p] \in {"ok", "fail"})
            /\ (dpc[p] = "wait" /\ dpc'[p] # "wait" /\ cancelled) =>
                  (dpc'[p] = "ret" /\ dret'[p] = "cancel"
                   /\ dstat'[p].calls = dstat[p].calls)
            /\ dpc[p] = "ret" => dpc'[p] \in {"ret", "idle"}]_vars

\* the only caller of do() was told to back off once, then its call failed
\* with another error: f was invoked twice and the limit decayed once
C17_Witness ==
    \E p \in GProcs :
        /\ started = {p} /\ dpc[p] = "ret" /\ dret[p] = "fail"
        /\ dstat[p].over = 1 /\ dstat[p].calls = 2
        /\ Rate * 10 = InitialRate * Scale * 9

(***************************************************************************)
(* More claims about fileOf (SpecDirs).                                    *)
(***************************************************************************)
\* C15: the step in which a lookup fails changes no entry of the cache; the
\* error goes to every caller waiting for that call, with no file; a call
\* that runs the lookup function itself and finds no entry issues a remote
\* lookup, whatever failed before; and when the lookup of an identifier that
\* failed before succeeds, the entry is in the cache once it is stored and
\* it is the entry the call returns.
C15_FailedLookupNotCached ==
    [][\A p \in RProcs :
          /\ (rpc[p] = "do" /\ rpc'[p] = "done") => (rerr'[p] # "nil" /\ dirs' = dirs)
          /\ (rpc[p] = "done" /\ rpc'[p] = "delete" /\ rerr[p] # "nil") =>
                \A q \in RProcs :
                    (rpc[q] = "waiting" /\ rkey[q] = rkey[p]) =>
                        (rpc'[q] = "ret" /\ rerr'[q] = rerr[p] /\ rval'[q] = NilFile)
          /\ (rpc[p] = "reading" /\ rpc'[p] # "reading" /\ dirs[rkey[p]] = NilFile) =>
                (rpc'[p] = "do" /\ dpc'[p] = "wait")
          /\ (rpc[p] = "writing" /\ rpc'[p] = "done" /\ rkey[p] \in failed) =>
                (dirs'[rkey[p]] = rval[p] /\ rval'[p] = rval[p] /\ rerr'[p] = "nil")]_vars

(***************************************************************************)
(* Claims about pathOf (SpecPath).  Avail is read against the cache on     *)
(* entry (dirs0) and the failing lookups (down) of the last call.          *)
(***************************************************************************)
\* the names from the root-most folder pathOf can reach from k down to k:
\* the chain of first parents, cut above the folder whose parent fails
RECURSIVE ChainNames(_)
ChainNames(k) ==
    IF RemoteParents(k) = <<>> \/ ~Avail(RemoteParents(k)[1])
      THEN <<RemoteName(k)>>
      ELSE ChainNames(RemoteParents(k)[1]) \o <<RemoteName(k)>>

\* the first folder above k, on the chain of first parents, whose lookup
\* fails ("" when there is none)
RECURSIVE FirstBadAbove(_)
FirstBadAbove(k) ==
    IF RemoteParents(k) = <<>> THEN ""
    ELSE IF ~Avail(RemoteParents(k)[1]) THEN RemoteParents(k)[1]
    ELSE FirstBadAbove(RemoteParents(k)[1])

\* C20: pathOf of an entry without parents is its name alone; when the chain
\* of first parents resolves it is the names from the root-most ancestor
\* down to the entry, with no error; when the lookup of an ancestor fails it
\* is that lookup's error with the names from the entry whose parent failed
\* down to the starting entry.
C20_PathOf ==
    start # NilFile =>
        LET k == start.Id
            bad == FirstBadAbove(k)
        IN /\ RemoteParents(k) = <<>> => (path = <<RemoteName(k)>> /\ perr = "nil")
           /\ path = ChainNames(k)
           /\ path[Len(path)] = RemoteName(k)
           /\ bad = "" => (perr = "nil" /\ "/" \o Join(path, "/") = FullPath(k))
           /\ bad # "" => perr = GetErr(bad)

\* pathOf of "c" (parents "b" and "root") with an empty cache and no failing
\* lookup: the chain through "b", not the second parent
C20_Witness ==
    /\ start = File("c", 1)
    /\ down = {} /\ dirs0 = [k \in Ids |-> NilFile]
    /\ path = <<"My Drive", "2016", "trip", "x">>
    /\ perr = "nil"

\* pathOf of "b" while the lookup of "root" fails: the names of "a" and "b"
\* come back with the error
C20_WitnessPartial ==
    /\ start = File("b", 1)
    /\ down = {"root"} /\ dirs0 = [k \in Ids |-> NilFile]
    /\ path = <<"2016", "trip">>
    /\ perr = GetErr("root")

====
